---- MODULE Spec2Model ----
(***************************************************************************)
(* Model of compass_metrics/git_metrics.py: the windowed git metrics       *)
(* (commit counts, organization commit attribution, organization           *)
(* contribution weeks, maintenance sampling, paginated message retrieval,  *)
(* commit / pull-request linkage).                                         *)
(*                                                                         *)
(* Dates are day numbers.  The code compares "YYYY-MM-DD" strings          *)
(* lexicographically, which for well-formed dates is the order of the day  *)
(* numbers.  Python's None is the value None below; it differs from every  *)
(* name of the catalogues.                                                 *)
(***************************************************************************)
EXTENDS Integers, Sequences, FiniteSets, TLC

VARIABLES
    pc,                            \* which function runs, and where it stands
    result,                        \* the value the function returns
    total_commit_count,            \* org_commit_frequency, line 101
    org_commit_count,              \* line 102
    org_commit_bot_count,          \* line 103
    org_commit_without_bot_count,  \* line 104
    org_commit_detail_dict,        \* line 105, in insertion order
    seen_overlap,                  \* history: a processed timeline overlapped
    seen_gap,                      \* history: a processed commit lay in no affiliation interval
    max_attributions,              \* history: most organizations one commit was attributed to
    commit_contributor_list,       \* what get_contributor_list returned (lines 162, 242)
    contribution_last,             \* org_contribution_last, line 164
    repo_contributor_group_dict,   \* line 165, in insertion order
    date_list,                     \* line 171
    ocl_repo,                      \* position of the loop of line 172
    ocl_day,                       \* position of the loop of line 173
    level,                         \* is_maintained: the level argument
    repos_list,                    \* is_maintained: the repos_list argument
    is_maintained_list,            \* line 193
    im_queries,                    \* history: the count queries sent
    positive_samples,              \* history: answers greater than zero
    result_list,                   \* get_message_list, line 333
    search_after,                  \* line 334
    gml_requests,                  \* history: the cursor of every request sent
    gml_pages,                     \* history: every page received
    code_commit_count,             \* commit_pr_linked_ratio, line 229
    commit_message_list,           \* commit_pr_linked_count, line 255
    commit_hash_list,              \* line 257
    sub_commit_hash_list,          \* line 260
    pr_commits_data_set,           \* line 261
    lc_chunk,                      \* position of the loop of line 262
    linked_count,                  \* line 267 as <<n>>, <<>> until computed
    pr_lookups,                    \* history: field_values of every lookup sent
    pr_responses                   \* history: every lookup's hits

inVars == <<commit_contributor_list>>

oclVars == <<contribution_last, repo_contributor_group_dict, date_list, ocl_repo, ocl_day>>

ocfVars == <<total_commit_count, org_commit_count, org_commit_bot_count,
             org_commit_without_bot_count, org_commit_detail_dict, seen_overlap,
             seen_gap, max_attributions>>

imVars == <<level, repos_list, is_maintained_list, im_queries, positive_samples>>

gmlVars == <<result_list, search_after, gml_requests, gml_pages>>

lcVars == <<code_commit_count, commit_message_list, commit_hash_list, sub_commit_hash_list,
            pr_commits_data_set, lc_chunk, linked_count, pr_lookups, pr_responses>>

vars == <<pc, result, ocfVars, inVars, oclVars, imVars, gmlVars, lcVars>>

None == "None"

\* Python truthiness of an optional string: None and "" are false.
Truthy(x) == x # None /\ x # ""

(***************************************************************************)
(* Bounds and program constants.                                           *)
(***************************************************************************)
AsOfDate == 100          \* the `date` argument, a day number
MaxCommits == 1          \* longest code_commit_date_list of a contributor
MaxContrib == 2          \* longest contributor list drawn as a whole
MaxRepos == 2            \* longest repos_list
MaxCard == 2             \* largest answer of a cardinality query
MaxPageLen == 2          \* most hits the backend puts in one page
MaxPages == 3            \* SpecPage: the backend runs out of hits after this many pages
MaxKept == 5             \* SpecPageLive: messages of result_list the model keeps
MaxHashes == 201         \* most distinct commit hashes fetched
MaxDup == 1              \* most repeated messages in the fetched list
OrgCap == 3              \* SpecOrg fetches no contributor beyond this many commits

WindowDays == 90
StepDays == 7
MaintainedDays == 30
PageSize == 500
ChunkSize == 100
RateScale == 10000       \* round(x, 4): results are kept in ten-thousandths

from_date == AsOfDate - WindowDays
to_date == AsOfDate

FarPast == from_date - 10
EarlyDate == from_date + 1
MidDate == from_date + 40
FarFuture == to_date + 900     \* last_date of an open-ended affiliation

(***************************************************************************)
(* Input catalogues.  A contributor record is what get_contributor_list    *)
(* returns: repo_name, is_bot, code_commit_date_list (dates in any order,  *)
(* inside and outside the window) and org_change_date_list.                *)
(***************************************************************************)
CommitDates == {from_date - 1, from_date, MidDate, to_date}

SeqsUpTo(S, n) == UNION {[1..k -> S] : k \in 0..n}

Entry(org_name, domain, first_date, last_date) ==
    [org_name |-> org_name, domain |-> domain, first_date |-> first_date, last_date |-> last_date]

\* Affiliation timelines without overlap.
PlainTimelines ==
    { <<Entry("Acme", "acme.com", FarPast, FarFuture)>>,
      <<Entry("x.org", "x.org", FarPast, FarFuture)>>,
      <<Entry(None, "gmail.com", FarPast, FarFuture)>>,
      <<Entry("Acme", "acme.com", FarPast, MidDate), Entry("x.org", "x.org", MidDate, FarFuture)>>,
      \* a domain without organization that reads like an organization's name
      <<Entry(None, "x.org", FarPast, FarFuture)>>,
      \* an affiliation that ended: later commits fall in no interval
      <<Entry("Acme", "acme.com", FarPast, MidDate)>>,
      \* personal address, then an organization, then the personal address again
      <<Entry(None, "gmail.com", FarPast, EarlyDate), Entry("Acme", "acme.com", EarlyDate, MidDate),
        Entry(None, "gmail.com", MidDate, FarFuture)>> }

Timelines ==
    PlainTimelines \cup
    { <<>>,
      \* two organizations at once
      <<Entry("Acme", "acme.com", FarPast, FarFuture), Entry("x.org", "x.org", FarPast, FarFuture)>> }

Repos == {"r1", "r2"}

Contributors(repos, timelines) ==
    [ repo_name : repos,
      is_bot : BOOLEAN,
      code_commit_date_list : SeqsUpTo(CommitDates, MaxCommits),
      org_change_date_list : timelines ]

(***************************************************************************)
(* Helpers.                                                                *)
(***************************************************************************)
RECURSIVE SumSeq(_)
SumSeq(s) == IF s = <<>> THEN 0 ELSE Head(s) + SumSeq(Tail(s))

\* sorted(list): insertion of x into an ascending list, after equal elements.
RECURSIVE InsertSorted(_, _)
InsertSorted(x, s) ==
    IF s = <<>> THEN <<x>>
    ELSE IF x < Head(s) THEN <<x>> \o s
    ELSE <<Head(s)>> \o InsertSorted(x, Tail(s))

RECURSIVE Sorted(_)
Sorted(s) == IF s = <<>> THEN <<>> ELSE InsertSorted(s[Len(s)], Sorted(SubSeq(s, 1, Len(s) - 1)))

\* round(num / den, 4) in ten-thousandths, den > 0, ties to even as Python rounds.
Round4(num, den) ==
    LET q == (num * RateScale) \div den
        r == (num * RateScale) % den
    IN  IF 2 * r > den THEN q + 1
        ELSE IF 2 * r < den THEN q
        ELSE IF q % 2 = 0 THEN q ELSE q + 1

(***************************************************************************)
(* org_commit_frequency                                                    *)
(***************************************************************************)
\* line 108
WindowCommits(contributor) ==
    LET s == Sorted(contributor.code_commit_date_list)
    IN  SelectSeq(s, LAMBDA x : from_date <= x /\ x < to_date)

\* line 112
OrgMatches(org, commit_date) ==
    org.org_name # None /\ org.first_date <= commit_date /\ commit_date < org.last_date

\* With the break removed every matching entry is counted.
RECURSIVE OrgAttributionsNoBreak(_, _)
OrgAttributionsNoBreak(orgs, commit_date) ==
    IF orgs = <<>> THEN 0
    ELSE (IF OrgMatches(Head(orgs), commit_date) THEN 1 ELSE 0)
         + OrgAttributionsNoBreak(Tail(orgs), commit_date)

\* lines 111-118: the number of times org_commit_count is incremented for one commit.
RECURSIVE OrgAttributions(_, _)
OrgAttributions(orgs, commit_date) ==
    IF orgs = <<>> THEN 0
    ELSE IF OrgMatches(Head(orgs), commit_date) THEN 1
    ELSE OrgAttributions(Tail(orgs), commit_date)

\* line 122
DetailKey(org) == IF Truthy(org.org_name) THEN org.org_name ELSE org.domain

\* dict.get(org_name, {}).get("org_commit", 0), line 127
DictCount(dict, key) ==
    LET hits == SelectSeq(dict, LAMBDA e : e.org_name = key)
    IN  IF hits = <<>> THEN 0 ELSE hits[1].org_commit

\* dict[key] = value keeps the position of an existing key, lines 130-134
DictPut(dict, value) ==
    IF \E i \in 1..Len(dict) : dict[i].org_name = value.org_name
    THEN [i \in 1..Len(dict) |-> IF dict[i].org_name = value.org_name THEN value ELSE dict[i]]
    ELSE Append(dict, value)

\* lines 121-134 for one commit: fold over the affiliation entries with org_name_set
RECURSIVE DetailPass(_, _, _, _)
DetailPass(dict, orgs, commit_date, org_name_set) ==
    IF orgs = <<>> THEN dict
    ELSE LET org == Head(orgs)
             org_name == DetailKey(org)
         IN  IF org_name \in org_name_set
             THEN DetailPass(dict, Tail(orgs), commit_date, org_name_set)
             ELSE LET count == DictCount(dict, org_name)
                      hit == org.first_date <= commit_date /\ commit_date < org.last_date
                      value == [org_name |-> org_name,
                                is_org |-> Truthy(org.org_name),
                                org_commit |-> IF hit THEN count + 1 ELSE count]
                  IN  DetailPass(DictPut(dict, value), Tail(orgs), commit_date,
                                 org_name_set \cup {org_name})

\* lines 110-134 over the commits of one contributor
RECURSIVE CommitLoop(_, _, _)
CommitLoop(acc, contributor, commits) ==
    IF commits = <<>> THEN acc
    ELSE LET d == Head(commits)
             n == OrgAttributions(contributor.org_change_date_list, d)
             inside == \E i \in 1..Len(contributor.org_change_date_list) :
                          LET org == contributor.org_change_date_list[i]
                          IN  org.first_date <= d /\ d < org.last_date
             next == [org |-> acc.org + n,
                      hits |-> IF n > acc.hits THEN n ELSE acc.hits,
                      gap |-> acc.gap \/ ~inside,
                      bot |-> acc.bot + (IF contributor.is_bot THEN n ELSE 0),
                      nobot |-> acc.nobot + (IF contributor.is_bot THEN 0 ELSE n),
                      dict |-> DetailPass(acc.dict, contributor.org_change_date_list, d, {})]
         IN  CommitLoop(next, contributor, Tail(commits))

\* Two affiliation intervals [first_date, last_date) of one contributor share a day.
Overlapping(orgs) ==
    \E i, j \in 1..Len(orgs) :
        /\ i < j
        /\ orgs[i].first_date < orgs[j].last_date
        /\ orgs[j].first_date < orgs[i].last_date

\* One iteration of the loop of line 107, the contributor drawn from catalogue.
OcfContributor(catalogue, cap) ==
    /\ pc = "ocf_loop"
    /\ \E contributor \in catalogue :
        LET commit_date_list == WindowCommits(contributor)
            orgs == contributor.org_change_date_list
            touched == commit_date_list # <<>>
            acc == CommitLoop([org |-> org_commit_count, bot |-> org_commit_bot_count,
                               hits |-> max_attributions, gap |-> seen_gap,
                               nobot |-> org_commit_without_bot_count,
                               dict |-> org_commit_detail_dict],
                              contributor, commit_date_list)
        IN  /\ total_commit_count + Len(commit_date_list) <= cap
            /\ total_commit_count' = total_commit_count + Len(commit_date_list)
            /\ org_commit_count' = acc.org
            /\ org_commit_bot_count' = acc.bot
            /\ org_commit_without_bot_count' = acc.nobot
            /\ org_commit_detail_dict' = acc.dict
            /\ seen_overlap' = (seen_overlap \/ (touched /\ Overlapping(orgs)))
            /\ seen_gap' = acc.gap
            /\ max_attributions' = acc.hits
    /\ UNCHANGED <<pc, result, inVars, oclVars, imVars, gmlVars, lcVars>>

\* lines 137-147: the entries with commits, with their two percentages
WithPercentages(x) ==
    LET by_org ==
            IF x.is_org
            THEN IF org_commit_count = 0 THEN 0 ELSE Round4(x.org_commit, org_commit_count)
            ELSE IF total_commit_count - org_commit_count = 0 THEN 0
                 ELSE Round4(x.org_commit, total_commit_count - org_commit_count)
        by_total == IF total_commit_count = 0 THEN 0 ELSE Round4(x.org_commit, total_commit_count)
    IN  [org_name |-> x.org_name, is_org |-> x.is_org, org_commit |-> x.org_commit,
         org_commit_percentage_by_org |-> by_org,
         org_commit_percentage_by_total |-> by_total]

\* sorted(..., key=org_commit, reverse=True): stable, descending
RECURSIVE InsertDesc(_, _)
InsertDesc(x, s) ==
    IF s = <<>> THEN <<x>>
    ELSE IF x.org_commit > Head(s).org_commit THEN <<x>> \o s
    ELSE <<Head(s)>> \o InsertDesc(x, Tail(s))

RECURSIVE SortedDesc(_)
SortedDesc(s) ==
    IF s = <<>> THEN <<>> ELSE InsertDesc(s[Len(s)], SortedDesc(SubSeq(s, 1, Len(s) - 1)))

\* round(count / 12.85, 4)
WeeklyRate(count) == Round4(count * 100, 1285)

\* lines 136-155
OcfFinish ==
    /\ pc = "ocf_loop"
    /\ LET kept == SelectSeq(org_commit_detail_dict, LAMBDA x : x.org_commit # 0)
           listed == [i \in 1..Len(kept) |-> WithPercentages(kept[i])]
       IN  result' = [org_commit_frequency |-> WeeklyRate(org_commit_count),
                      org_commit_frequency_bot |-> WeeklyRate(org_commit_bot_count),
                      org_commit_frequency_without_bot |-> WeeklyRate(org_commit_without_bot_count),
                      org_commit_frequency_list |-> SortedDesc(listed)]
    /\ pc' = "ocf_done"
    /\ UNCHANGED <<ocfVars, inVars, oclVars, imVars, gmlVars, lcVars>>

OcfIdle ==
    /\ total_commit_count = 0
    /\ org_commit_count = 0
    /\ org_commit_bot_count = 0
    /\ org_commit_without_bot_count = 0
    /\ org_commit_detail_dict = <<>>
    /\ seen_overlap = FALSE
    /\ seen_gap = FALSE
    /\ max_attributions = 0

OclIdle ==
    /\ contribution_last = 0
    /\ repo_contributor_group_dict = <<>>
    /\ date_list = <<>>
    /\ ocl_repo = 0
    /\ ocl_day = 0

ImIdle ==
    /\ level = None
    /\ repos_list = <<>>
    /\ is_maintained_list = <<>>
    /\ im_queries = <<>>
    /\ positive_samples = 0

GmlIdle ==
    /\ result_list = <<>>
    /\ search_after = <<>>
    /\ gml_requests = <<>>
    /\ gml_pages = <<>>

LcIdle ==
    /\ code_commit_count = 0
    /\ commit_message_list = <<>>
    /\ commit_hash_list = <<>>
    /\ sub_commit_hash_list = <<>>
    /\ pr_commits_data_set = {}
    /\ lc_chunk = 0
    /\ linked_count = <<>>
    /\ pr_lookups = <<>>
    /\ pr_responses = <<>>

InitOrg ==
    /\ pc = "ocf_loop"
    /\ result = None
    /\ OcfIdle
    /\ commit_contributor_list = <<>>
    /\ OclIdle
    /\ ImIdle
    /\ GmlIdle
    /\ LcIdle

NextOrg == OcfContributor(Contributors({"r1"}, Timelines), OrgCap) \/ OcfFinish

SpecOrg == InitOrg /\ [][NextOrg]_vars

(***************************************************************************)
(* Date helpers of compass_common.datetime                                 *)
(***************************************************************************)
\* check_times_has_overlap: the closed ranges share a day
check_times_has_overlap(a_start, a_end, b_start, b_end) == ~(a_end < b_start \/ a_start > b_end)

get_latest_date(a, b) == IF a >= b THEN a ELSE b

get_oldest_date(a, b) == IF a <= b THEN a ELSE b

\* get_date_list(begin, end, freq='7D'): begin, begin + 7, ... up to end
get_date_list(begin_date, end_date, step) ==
    [k \in 1..((end_date - begin_date) \div step + 1) |-> begin_date + (k - 1) * step]

(***************************************************************************)
(* get_commit_count, commit_count                                          *)
(***************************************************************************)
PyBool(b) == IF b THEN "True" ELSE "False"

\* The defaults of the parameters company and is_bot, line 299.
DefaultCompany == None

DefaultIsBot == None

\* line 304 with the filter of TRUE matching every contributor
BotFilterAlways(is_bot, contributor) == is_bot = None \/ is_bot = "True" \/ ~contributor.is_bot

\* line 304
BotFilter(is_bot, contributor) == is_bot = None \/ PyBool(contributor.is_bot) = is_bot

\* lines 306-308
DatesInWindow(commit_dates, from_date_str, to_date_str) ==
    Len(SelectSeq(commit_dates, LAMBDA d : from_date_str <= d /\ d <= to_date_str))

\* lines 310-316
RECURSIVE CompanyCommits(_, _, _, _, _)
CompanyCommits(orgs, commit_dates, company, from_date_str, to_date_str) ==
    IF orgs = <<>> THEN 0
    ELSE LET org == Head(orgs)
             here ==
                 IF /\ org.org_name # None
                    /\ org.org_name = company
                    /\ check_times_has_overlap(org.first_date, org.last_date, from_date_str, to_date_str)
                 THEN Len(SelectSeq(commit_dates,
                          LAMBDA d : /\ get_latest_date(from_date_str, org.first_date) <= d
                                     /\ d < get_oldest_date(org.last_date, to_date_str)))
                 ELSE 0
         IN  here + CompanyCommits(Tail(orgs), commit_dates, company, from_date_str, to_date_str)

\* lines 299-317
RECURSIVE get_commit_count(_, _, _, _, _)
get_commit_count(from_date_str, to_date_str, contributor_list, company, is_bot) ==
    IF contributor_list = <<>> THEN 0
    ELSE LET contributor == Head(contributor_list)
             here ==
                 IF BotFilter(is_bot, contributor)
                 THEN IF company = None
                      THEN DatesInWindow(contributor.code_commit_date_list, from_date_str, to_date_str)
                      ELSE CompanyCommits(contributor.org_change_date_list,
                                          contributor.code_commit_date_list,
                                          company, from_date_str, to_date_str)
                 ELSE 0
         IN  here + get_commit_count(from_date_str, to_date_str, Tail(contributor_list), company, is_bot)

\* lines 238-249
commit_count(contributor_list) ==
    [commit_count |->
        get_commit_count(from_date, to_date, contributor_list, DefaultCompany, DefaultIsBot),
     commit_count_bot |->
        get_commit_count(from_date, to_date, contributor_list, DefaultCompany, "True"),
     commit_count_without_bot |->
        get_commit_count(from_date, to_date, contributor_list, DefaultCompany, "False")]

CommitCount ==
    /\ pc = "cc_start"
    /\ result' = commit_count(commit_contributor_list)
    /\ pc' = "cc_done"
    /\ UNCHANGED <<ocfVars, inVars, oclVars, imVars, gmlVars, lcVars>>

InitCount ==
    /\ pc = "cc_start"
    /\ result = None
    /\ OcfIdle
    /\ commit_contributor_list \in
          SeqsUpTo(Contributors({"r1"}, {<<Entry("Acme", "acme.com", FarPast, FarFuture)>>}), MaxContrib)
    /\ OclIdle
    /\ ImIdle
    /\ GmlIdle
    /\ LcIdle

NextCount == CommitCount

SpecCount == InitCount /\ [][NextCount]_vars

\* The commits of the list dated in the closed window, as (contributor, position) pairs.
WindowCommitSet(bots) ==
    { <<i, j>> \in (1..Len(commit_contributor_list)) \X (1..MaxCommits) :
        /\ j <= Len(commit_contributor_list[i].code_commit_date_list)
        /\ commit_contributor_list[i].is_bot \in bots
        /\ from_date <= commit_contributor_list[i].code_commit_date_list[j]
        /\ commit_contributor_list[i].code_commit_date_list[j] <= to_date }

\* C1: the count without an is_bot argument is the count with is_bot None, and the bot
\* and non-bot counts are the numbers of bot and non-bot commits dated in the closed
\* window, so they add up to the total.
C1_BotPartition ==
    pc = "cc_done" =>
        /\ result.commit_count = get_commit_count(from_date, to_date, commit_contributor_list, None, None)
        /\ result.commit_count_bot = Cardinality(WindowCommitSet({TRUE}))
        /\ result.commit_count_without_bot = Cardinality(WindowCommitSet({FALSE}))
        /\ result.commit_count_bot + result.commit_count_without_bot = result.commit_count

\* A bot and a person both have a commit on the last day of the window.
C1_Witness ==
    /\ pc = "cc_done"
    /\ result.commit_count_bot >= 1
    /\ result.commit_count_without_bot >= 1
    /\ \E i \in 1..Len(commit_contributor_list) :
          \E j \in 1..Len(commit_contributor_list[i].code_commit_date_list) :
             commit_contributor_list[i].code_commit_date_list[j] = to_date

(***************************************************************************)
(* org_contribution_last                                                   *)
(***************************************************************************)
\* lines 166-169: contributors grouped by repo_name, repos in order of first appearance
RECURSIVE GroupByRepo(_, _)
GroupByRepo(dict, contributor_list) ==
    IF contributor_list = <<>> THEN dict
    ELSE LET contributor == Head(contributor_list)
             known == \E i \in 1..Len(dict) : dict[i].repo = contributor.repo_name
             next ==
                 IF known
                 THEN [i \in 1..Len(dict) |->
                         IF dict[i].repo = contributor.repo_name
                         THEN [repo |-> dict[i].repo, list |-> Append(dict[i].list, contributor)]
                         ELSE dict[i]]
                 ELSE Append(dict, [repo |-> contributor.repo_name, list |-> <<contributor>>])
         IN  GroupByRepo(next, Tail(contributor_list))

\* lines 164-171
OclGroup ==
    /\ pc = "ocl_start"
    /\ contribution_last' = 0
    /\ repo_contributor_group_dict' = GroupByRepo(<<>>, commit_contributor_list)
    /\ date_list' = get_date_list(from_date, to_date, StepDays)
    /\ ocl_repo' = 1
    /\ ocl_day' = 1
    /\ pc' = "ocl_loop"
    /\ UNCHANGED <<result, ocfVars, inVars, imVars, gmlVars, lcVars>>

\* lines 181-184: a commit of the contributor inside the sub-window
CommitInside(contributor, from_day, to_day) ==
    \E j \in 1..Len(contributor.code_commit_date_list) :
        from_day <= contributor.code_commit_date_list[j] /\ contributor.code_commit_date_list[j] <= to_day

\* lines 174-184: org_name_set of one repository and one day of date_list
OrgNameSet(repo_contributor_list, day) ==
    LET from_day == day - StepDays
        to_day == day
    IN  { repo_contributor_list[i].org_change_date_list[k].org_name :
            <<i, k>> \in
              { <<i, k>> \in (1..Len(repo_contributor_list)) \X (1..3) :
                  /\ k <= Len(repo_contributor_list[i].org_change_date_list)
                  /\ LET org == repo_contributor_list[i].org_change_date_list[k]
                     IN  /\ org.org_name # None
                         /\ check_times_has_overlap(org.first_date, org.last_date, from_day, to_day)
                         /\ CommitInside(repo_contributor_list[i], from_day, to_day) } }

\* lines 173-185 for one day of one repository
OclSample ==
    /\ pc = "ocl_loop"
    /\ ocl_repo <= Len(repo_contributor_group_dict)
    /\ contribution_last' = contribution_last +
          Cardinality(OrgNameSet(repo_contributor_group_dict[ocl_repo].list, date_list[ocl_day]))
    /\ IF ocl_day < Len(date_list)
       THEN ocl_day' = ocl_day + 1 /\ ocl_repo' = ocl_repo
       ELSE ocl_day' = 1 /\ ocl_repo' = ocl_repo + 1
    /\ UNCHANGED <<pc, result, ocfVars, inVars, repo_contributor_group_dict, date_list,
                   imVars, gmlVars, lcVars>>

\* lines 186-189
OclFinish ==
    /\ pc = "ocl_loop"
    /\ ocl_repo > Len(repo_contributor_group_dict)
    /\ result' = [org_contribution_last |-> contribution_last]
    /\ pc' = "ocl_done"
    /\ UNCHANGED <<ocfVars, inVars, oclVars, imVars, gmlVars, lcVars>>

LastTimelines ==
    { <<Entry("Acme", "acme.com", FarPast, FarFuture)>>,
      <<Entry(None, "gmail.com", FarPast, FarFuture)>>,
      \* moved from one organization to the other the day before MidDate
      <<Entry("Acme", "acme.com", FarPast, MidDate - 1),
        Entry("x.org", "x.org", MidDate - 1, FarFuture)>> }

InitLast ==
    /\ pc = "ocl_start"
    /\ result = None
    /\ OcfIdle
    /\ commit_contributor_list \in SeqsUpTo(Contributors(Repos, LastTimelines), MaxContrib)
    /\ OclIdle
    /\ ImIdle
    /\ GmlIdle
    /\ LcIdle

NextLast == OclGroup \/ OclSample \/ OclFinish

SpecLast == InitLast /\ [][NextLast]_vars

\* The organizations C8 counts for one repository and one sub-window: an affiliation
\* interval overlaps the sub-window and the contributor has a commit inside the
\* sub-window dated within that interval.
AffiliatedOrgs(repo, day) ==
    { o \in {"Acme", "x.org"} :
        \E i \in 1..Len(commit_contributor_list) :
            LET c == commit_contributor_list[i]
            IN  /\ c.repo_name = repo
                /\ \E k \in 1..Len(c.org_change_date_list) :
                      LET org == c.org_change_date_list[k]
                      IN  /\ org.org_name = o
                          /\ check_times_has_overlap(org.first_date, org.last_date, day - StepDays, day)
                          /\ \E j \in 1..Len(c.code_commit_date_list) :
                                LET d == c.code_commit_date_list[j]
                                IN  /\ day - StepDays <= d /\ d <= day
                                    /\ org.first_date <= d /\ d < org.last_date }

\* AffiliatedOrgs counted over the repositories of repos, for one sub-window.
RECURSIVE AffiliatedInRepos(_, _)
AffiliatedInRepos(repos, day) ==
    IF repos = {} THEN 0
    ELSE LET r == CHOOSE x \in repos : TRUE
         IN  Cardinality(AffiliatedOrgs(r, day)) + AffiliatedInRepos(repos \ {r}, day)

AffiliatedWeeks ==
    SumSeq([k \in 1..Len(date_list) |-> AffiliatedInRepos(Repos, date_list[k])])

\* C8: the result is the sum, over the repositories and the sub-windows, of the number
\* of organizations with an affiliation interval overlapping the sub-window and a
\* commit inside the sub-window made within that interval.
C8_AffiliatedCommitsOnly ==
    pc = "ocl_done" => result.org_contribution_last = AffiliatedWeeks

(***************************************************************************)
(* Properties of org_commit_frequency                                      *)
(***************************************************************************)
\* The sum of org_commit over the detail entries whose is_org is flag.
DetailSum(flag) ==
    SumSeq([i \in 1..Len(org_commit_detail_dict) |->
              IF org_commit_detail_dict[i].is_org = flag
              THEN org_commit_detail_dict[i].org_commit ELSE 0])

\* C2: with timelines that do not overlap and cover every processed commit, the
\* org_commit of the organization entries sum to at most org_commit_count and the
\* org_commit of the other entries sum to exactly total_commit_count - org_commit_count.
C2_DetailCountsAddUp ==
    (~seen_overlap /\ ~seen_gap) =>
        /\ DetailSum(TRUE) <= org_commit_count
        /\ DetailSum(FALSE) = total_commit_count - org_commit_count

ListOf(r) == r.org_commit_frequency_list

\* Sums, in ten-thousandths, over the returned list.
ByOrgSum(list) ==
    SumSeq([i \in 1..Len(list) |->
              IF list[i].is_org THEN list[i].org_commit_percentage_by_org ELSE 0])

ByTotalSum(list) == SumSeq([i \in 1..Len(list) |-> list[i].org_commit_percentage_by_total])

\* C3: for contributor lists with timelines that do not overlap, the rounded
\* org_commit_percentage_by_org of the is_org entries sum to at most 1.0, and the
\* rounded org_commit_percentage_by_total of all entries sum to at most 1.0.
C3_PercentagesAtMostOne ==
    (pc = "ocf_done" /\ ~seen_overlap) =>
        /\ ByOrgSum(ListOf(result)) <= RateScale
        /\ ByTotalSum(ListOf(result)) <= RateScale

\* C9: every commit is attributed to at most one organization, so org_commit_count
\* never exceeds total_commit_count and splits exactly into its bot and non-bot
\* parts, also when affiliation intervals overlap.
C9_OneOrganizationPerCommit ==
    /\ max_attributions <= 1
    /\ org_commit_count <= total_commit_count
    /\ org_commit_bot_count + org_commit_without_bot_count = org_commit_count

\* Commits of a bot and of a person were attributed, one under overlapping intervals.
C9_Witness ==
    /\ seen_overlap
    /\ org_commit_count = total_commit_count
    /\ org_commit_bot_count >= 1
    /\ org_commit_without_bot_count >= 1

(***************************************************************************)
(* is_maintained                                                           *)
(***************************************************************************)
Levels == {"repo", "project", "community", "organization"}

\* line 194
GitName(repo_url) == [url |-> repo_url, suffix |-> ".git"]

git_repos_list == [i \in 1..Len(repos_list) |-> GitName(repos_list[i])]

\* lines 196-197
date_list_maintained == get_date_list(AsOfDate - WindowDays, AsOfDate, StepDays)

\* The answer counts as a commit as soon as it is not negative.
HasCommitsNonNegative(commit_frequency_i) == commit_frequency_i >= 0

\* lines 203 and 212
HasCommits(commit_frequency_i) == commit_frequency_i > 0

Flag(commit_frequency_i) == IF HasCommits(commit_frequency_i) THEN "True" ELSE "False"

\* lines 198-206: one 7-day step, over all the repositories together
ImWeek ==
    /\ pc = "im_loop"
    /\ level = "repo"
    /\ Len(is_maintained_list) < Len(date_list_maintained)
    /\ LET day == date_list_maintained[Len(is_maintained_list) + 1]
       IN  \E commit_frequency_i \in 0..MaxCard :
             /\ im_queries' = Append(im_queries,
                    [repos |-> git_repos_list, size |-> 0,
                     from_date |-> day - StepDays, to_date |-> day])
             /\ is_maintained_list' = Append(is_maintained_list, Flag(commit_frequency_i))
             /\ positive_samples' = positive_samples + (IF commit_frequency_i > 0 THEN 1 ELSE 0)
    /\ UNCHANGED <<pc, result, level, repos_list, ocfVars, inVars, oclVars, gmlVars, lcVars>>

\* lines 209-215: one repository, over the trailing 30 days
ImRepo ==
    /\ pc = "im_loop"
    /\ level \in {"project", "community"}
    /\ Len(is_maintained_list) < Len(git_repos_list)
    /\ LET repo == git_repos_list[Len(is_maintained_list) + 1]
       IN  \E commit_frequency_i \in 0..MaxCard :
             /\ im_queries' = Append(im_queries,
                    [repos |-> <<repo>>, size |-> None,
                     from_date |-> AsOfDate - MaintainedDays, to_date |-> AsOfDate])
             /\ is_maintained_list' = Append(is_maintained_list, Flag(commit_frequency_i))
             /\ positive_samples' = positive_samples + (IF commit_frequency_i > 0 THEN 1 ELSE 0)
    /\ UNCHANGED <<pc, result, level, repos_list, ocfVars, inVars, oclVars, gmlVars, lcVars>>

\* lines 217-224
ImFinish ==
    /\ pc = "im_loop"
    /\ \/ level = "repo" /\ Len(is_maintained_list) = Len(date_list_maintained)
       \/ level \in {"project", "community"} /\ Len(is_maintained_list) = Len(git_repos_list)
       \/ level \notin {"repo", "project", "community"}
    /\ LET trues == Len(SelectSeq(is_maintained_list, LAMBDA x : x = "True"))
           is_maintained ==
               IF Len(is_maintained_list) = 0 THEN 0
               ELSE Round4(trues, Len(is_maintained_list))
       IN  result' = [is_maintained |-> is_maintained]
    /\ pc' = "im_done"
    /\ UNCHANGED <<imVars, ocfVars, inVars, oclVars, gmlVars, lcVars>>

InitMaintained ==
    /\ pc = "im_loop"
    /\ result = None
    /\ OcfIdle
    /\ commit_contributor_list = <<>>
    /\ OclIdle
    /\ level \in Levels
    /\ repos_list \in SeqsUpTo(Repos, MaxRepos)
    /\ is_maintained_list = <<>>
    /\ im_queries = <<>>
    /\ positive_samples = 0
    /\ GmlIdle
    /\ LcIdle

NextMaintained == ImWeek \/ ImRepo \/ ImFinish

SpecMaintained == InitMaintained /\ [][NextMaintained]_vars

\* The samples C5 names: the 7-day steps of the trailing 90 days over all repositories
\* at level repo, the single repositories over the trailing 30 days at level project
\* or community, none at any other level.
ExpectedQueries ==
    IF level = "repo"
    THEN [k \in 1..((WindowDays \div StepDays) + 1) |->
            [repos |-> [i \in 1..Len(repos_list) |-> GitName(repos_list[i])], size |-> 0,
             from_date |-> AsOfDate - WindowDays + (k - 2) * StepDays,
             to_date |-> AsOfDate - WindowDays + (k - 1) * StepDays]]
    ELSE IF level \in {"project", "community"}
    THEN [i \in 1..Len(repos_list) |->
            [repos |-> <<GitName(repos_list[i])>>, size |-> None,
             from_date |-> AsOfDate - MaintainedDays, to_date |-> AsOfDate]]
    ELSE <<>>

\* C5: is_maintained is the share of the samples with a commit, rounded to 4 decimals:
\* 0 without samples or without commits, 1.0 when every sample has one.
C5_MaintainedShare ==
    pc = "im_done" =>
        LET n == Len(ExpectedQueries)
            r == result.is_maintained
            error == r * n - RateScale * positive_samples
        IN  /\ im_queries = ExpectedQueries
            /\ n = 0 => r = 0
            /\ n > 0 => (2 * error <= n /\ -2 * error <= n)
            /\ positive_samples = 0 => r = 0
            /\ (n > 0 /\ positive_samples = n) => r = RateScale

\* At level repo one of the thirteen steps has commits.
C5_Witness ==
    /\ pc = "im_done"
    /\ level = "repo"
    /\ positive_samples = 1
    /\ Len(is_maintained_list) = 13
    /\ result.is_maintained = 769

(***************************************************************************)
(* get_message_list                                                        *)
(***************************************************************************)
\* A hit carries its document and its sort values; the sort value of a document
\* is its own.
Hits == { [source |-> [hash |-> h], sort |-> <<h>>] : h \in {1, 2} }

Pages == SeqsUpTo(Hits, MaxPageLen)

Sources(message_list) == [i \in 1..Len(message_list) |-> message_list[i].source]

\* The cursor taken from the first hit of the page.
NextCursorFirst(message_list) == message_list[1].sort

\* line 341
NextCursor(message_list) == message_list[Len(message_list)].sort

\* lines 336-342 with the page the backend answers; the backend has hits for at most
\* MaxPages pages.
GmlRequest ==
    /\ pc = "gml_loop"
    /\ \E message_list \in Pages :
          /\ message_list # <<>> => Len(gml_pages) < MaxPages
          /\ gml_requests' = Append(gml_requests, [search_after |-> search_after, size |-> PageSize])
          /\ gml_pages' = Append(gml_pages, message_list)
          /\ IF Len(message_list) = 0
             THEN /\ pc' = "gml_done"
                  /\ result' = result_list
                  /\ UNCHANGED <<search_after, result_list>>
             ELSE /\ search_after' = NextCursor(message_list)
                  /\ result_list' = result_list \o Sources(message_list)
                  /\ UNCHANGED <<pc, result>>
    /\ UNCHANGED <<ocfVars, inVars, oclVars, imVars, lcVars>>

InitPage ==
    /\ pc = "gml_loop"
    /\ result = None
    /\ OcfIdle
    /\ commit_contributor_list = <<>>
    /\ OclIdle
    /\ ImIdle
    /\ GmlIdle
    /\ LcIdle

NextPage == GmlRequest

SpecPage == InitPage /\ [][NextPage]_vars

KeepFirst(s, n) == IF Len(s) <= n THEN s ELSE SubSeq(s, 1, n)

\* lines 336-342 with a backend that may answer a page with hits to every request.
\* Of result_list the first MaxKept messages are kept; the loop never reads it.
GmlRequestUnbounded ==
    /\ pc = "gml_loop"
    /\ \E message_list \in Pages :
          IF Len(message_list) = 0
          THEN /\ pc' = "gml_done"
               /\ result' = result_list
               /\ UNCHANGED <<search_after, result_list>>
          ELSE /\ search_after' = NextCursor(message_list)
               /\ result_list' = KeepFirst(result_list \o Sources(message_list), MaxKept)
               /\ UNCHANGED <<pc, result>>
    /\ UNCHANGED <<gml_requests, gml_pages, ocfVars, inVars, oclVars, imVars, lcVars>>

NextPageLive == GmlRequestUnbounded

\* The loop makes its next request whenever it can.
SpecPageLive == InitPage /\ [][NextPageLive]_vars /\ WF_vars(GmlRequestUnbounded)

\* C6: the pagination loop stops, with a result or in a protocol-error state, whatever
\* the backend answers.
C6_LoopStops == <>(pc \in {"gml_done", "gml_fatal"})

RECURSIVE Concat(_)
Concat(pages) == IF pages = <<>> THEN <<>> ELSE Head(pages) \o Concat(Tail(pages))

\* C7: the first request carries the empty cursor, every later one the sort value of
\* the last hit of the page before; only the last page received is empty, and then the
\* loop is over and returns the documents of all the pages in the order received.
C7_SequentialPages ==
    /\ Len(gml_requests) = Len(gml_pages)
    /\ \A i \in 1..Len(gml_requests) :
          /\ gml_requests[i].size = PageSize
          /\ gml_requests[i].search_after =
                IF i = 1 THEN <<>> ELSE gml_pages[i - 1][Len(gml_pages[i - 1])].sort
    /\ \A i \in 1..Len(gml_pages) :
          gml_pages[i] = <<>> => (i = Len(gml_pages) /\ pc = "gml_done")
    /\ pc = "gml_done" =>
          /\ gml_pages # <<>>
          /\ gml_pages[Len(gml_pages)] = <<>>
          /\ result = [i \in 1..Len(Concat(gml_pages)) |-> Concat(gml_pages)[i].source]

\* Two pages whose last hit is not their first, then the empty page.
C7_Witness ==
    /\ pc = "gml_done"
    /\ Len(gml_pages) = 3
    /\ gml_pages[1] = <<[source |-> [hash |-> 1], sort |-> <<1>>], [source |-> [hash |-> 2], sort |-> <<2>>]>>
    /\ gml_pages[2] = <<[source |-> [hash |-> 2], sort |-> <<2>>], [source |-> [hash |-> 1], sort |-> <<1>>]>>
    /\ result = <<[hash |-> 1], [hash |-> 2], [hash |-> 2], [hash |-> 1]>>

(***************************************************************************)
(* commit_pr_linked_count, commit_pr_linked_ratio                          *)
(***************************************************************************)
ForeignHash == 0      \* a commit of a pull request that the git index does not hold

\* What get_message_list returns: n distinct hashes, the first dup of them twice.
Messages(n, dup) == [i \in 1..(n + dup) |-> [hash |-> IF i <= n THEN i ELSE i - n]]

Reverse(s) == [i \in 1..Len(s) |-> s[Len(s) + 1 - i]]

\* The distinct hashes of messages, each at the place of its first message.
FirstSeen(messages) ==
    LET firsts == SelectSeq([i \in 1..Len(messages) |-> i],
                            LAMBDA i : \A j \in 1..(i - 1) : messages[j].hash # messages[i].hash)
    IN  [k \in 1..Len(firsts) |-> messages[firsts[k]].hash]

\* math.ceil(len / 100), line 260
Sections(n) == (n + ChunkSize - 1) \div ChunkSize

\* A split into k chunks of n \div k elements, which leaves the remainder out.
ArraySplitEven(list, k) ==
    LET each == Len(list) \div k
    IN  [c \in 1..k |-> SubSeq(list, (c - 1) * each + 1, c * each)]

\* np.array_split(list, k): the first len % k chunks hold one element more
ArraySplit(list, k) ==
    LET each == Len(list) \div k
        extras == Len(list) % k
        start(c) == (c - 1) * each + (IF c - 1 < extras THEN c - 1 ELSE extras)
    IN  [c \in 1..k |-> SubSeq(list, start(c) + 1, start(c + 1))]

\* line 229
RatioCommitCount ==
    /\ pc = "ratio_start"
    /\ code_commit_count' = commit_count(commit_contributor_list).commit_count
    /\ pc' = "lc_fetch"
    /\ UNCHANGED <<result, ocfVars, inVars, oclVars, imVars, gmlVars,
                   commit_message_list, commit_hash_list, sub_commit_hash_list,
                   pr_commits_data_set, lc_chunk, linked_count, pr_lookups, pr_responses>>

\* lines 254-261; list(set) yields the hashes in an order of its own
LcFetch ==
    /\ pc = "lc_fetch"
    /\ \E n \in 0..MaxHashes, dup \in 0..MaxDup, reversed \in BOOLEAN :
          LET hash_list == IF reversed THEN Reverse(FirstSeen(Messages(n, dup)))
                           ELSE FirstSeen(Messages(n, dup))
          IN  /\ dup <= n
              /\ commit_message_list' = Messages(n, dup)
              /\ commit_hash_list' = hash_list
              /\ IF Len(hash_list) = 0
                 THEN /\ linked_count' = <<0>>
                      /\ pc' = "ratio_finish"
                      /\ UNCHANGED <<sub_commit_hash_list, lc_chunk>>
                 ELSE /\ sub_commit_hash_list' = ArraySplit(hash_list, Sections(Len(hash_list)))
                      /\ lc_chunk' = 1
                      /\ pc' = "lc_loop"
                      /\ UNCHANGED linked_count
    /\ pr_commits_data_set' = {}
    /\ UNCHANGED <<result, ocfVars, inVars, oclVars, imVars, gmlVars,
                   code_commit_count, pr_lookups, pr_responses>>

SeqToSet(s) == {s[i] : i \in 1..Len(s)}

\* The pull requests a lookup of sublist may find: none, one with every commit of
\* sublist, one with its first commit, one with its first commit and a foreign one.
PrAnswers(sublist) ==
    { <<>>,
      <<[commits_data |-> SeqToSet(sublist)]>>,
      <<[commits_data |-> {sublist[1]}]>>,
      <<[commits_data |-> {sublist[1], ForeignHash}]>> }

\* lines 262-266 for one chunk
LcLookup ==
    /\ pc = "lc_loop"
    /\ lc_chunk <= Len(sub_commit_hash_list)
    /\ LET sublist == sub_commit_hash_list[lc_chunk]
       IN  \E pr_message_list \in PrAnswers(sublist) :
             /\ pr_lookups' = Append(pr_lookups, [field_values |-> sublist, size |-> ChunkSize])
             /\ pr_responses' = Append(pr_responses, pr_message_list)
             /\ pr_commits_data_set' = pr_commits_data_set \cup
                   UNION {pr_message_list[i].commits_data : i \in 1..Len(pr_message_list)}
    /\ lc_chunk' = lc_chunk + 1
    /\ UNCHANGED <<pc, result, ocfVars, inVars, oclVars, imVars, gmlVars, code_commit_count,
                   commit_message_list, commit_hash_list, sub_commit_hash_list, linked_count>>

\* lines 267-272
LcFinish ==
    /\ pc = "lc_loop"
    /\ lc_chunk > Len(sub_commit_hash_list)
    /\ linked_count' = <<Cardinality(SeqToSet(commit_hash_list) \cap pr_commits_data_set)>>
    /\ pc' = "ratio_finish"
    /\ UNCHANGED <<result, ocfVars, inVars, oclVars, imVars, gmlVars, code_commit_count,
                   commit_message_list, commit_hash_list, sub_commit_hash_list,
                   pr_commits_data_set, lc_chunk, pr_lookups, pr_responses>>

\* lines 230-235; the quotient is kept as <<numerator, denominator>>, None as <<>>
RatioFinish ==
    /\ pc = "ratio_finish"
    /\ result' = [commit_pr_linked_ratio |->
                    IF code_commit_count > 0 THEN <<linked_count[1], code_commit_count>> ELSE <<>>]
    /\ pc' = "ratio_done"
    /\ UNCHANGED <<ocfVars, inVars, oclVars, imVars, gmlVars, lcVars>>

\* Contributor lists with no, one and two commits in the window.
RatioContributorLists ==
    LET person == [repo_name |-> "r1", is_bot |-> FALSE,
                   code_commit_date_list |-> <<from_date>>, org_change_date_list |-> <<>>]
        bot == [repo_name |-> "r1", is_bot |-> TRUE,
                code_commit_date_list |-> <<to_date>>, org_change_date_list |-> <<>>]
    IN  { <<>>, <<person>>, <<person, bot>> }

InitLinked ==
    /\ pc = "ratio_start"
    /\ result = None
    /\ OcfIdle
    /\ commit_contributor_list \in RatioContributorLists
    /\ OclIdle
    /\ ImIdle
    /\ GmlIdle
    /\ LcIdle

NextLinked == RatioCommitCount \/ LcFetch \/ LcLookup \/ LcFinish \/ RatioFinish

SpecLinked == InitLinked /\ [][NextLinked]_vars

HashSet == {commit_message_list[i].hash : i \in 1..Len(commit_message_list)}

\* Every commit a lookup found in a pull request.
FoundInPullRequests ==
    UNION { UNION {pr_responses[k][i].commits_data : i \in 1..Len(pr_responses[k])} :
            k \in 1..Len(pr_responses) }

\* C4: the ratio is None when code_commit_count is 0, is 1.0 when every fetched hash
\* is in a pull request found, and never exceeds 1.0.
C4_RatioOfLinkedCommits ==
    pc = "ratio_done" =>
        LET ratio == result.commit_pr_linked_ratio
        IN  /\ code_commit_count = 0 => ratio = <<>>
            /\ (code_commit_count > 0 /\ HashSet # {} /\ HashSet \subseteq FoundInPullRequests)
                  => (ratio # <<>> /\ ratio[1] = ratio[2])
            /\ ratio # <<>> => ratio[1] <= ratio[2]

\* C10: n >= 1 distinct hashes are split into ceil(n / 100) chunks of at most 100 that
\* hold every hash once, one lookup is made per chunk, and the count returned is the
\* number of hashes found in the pull requests, at most n; n = 0 gives 0, no lookup.
C10_ChunkedLookups ==
    pc \in {"lc_loop", "ratio_finish", "ratio_done"} =>
        LET n == Cardinality(HashSet)
            chunks == sub_commit_hash_list
        IN  /\ n = 0 => (chunks = <<>> /\ pr_lookups = <<>> /\ linked_count = <<0>>)
            /\ n >= 1 =>
                  /\ Len(chunks) * ChunkSize >= n
                  /\ (Len(chunks) - 1) * ChunkSize < n
                  /\ \A c \in 1..Len(chunks) : Len(chunks[c]) <= ChunkSize
                  /\ UNION {SeqToSet(chunks[c]) : c \in 1..Len(chunks)} = HashSet
                  /\ SumSeq([c \in 1..Len(chunks) |-> Len(chunks[c])]) = n
                  /\ \A k \in 1..Len(pr_lookups) : pr_lookups[k].field_values = chunks[k]
            /\ pc \in {"ratio_finish", "ratio_done"} =>
                  /\ Len(pr_lookups) = Len(chunks)
                  /\ linked_count = <<Cardinality(HashSet \cap FoundInPullRequests)>>
                  /\ linked_count[1] <= n

\* Three chunks, a pull request found for each, one of them with a foreign commit.
C10_Witness ==
    /\ pc = "ratio_finish"
    /\ Len(sub_commit_hash_list) = 3
    /\ Len(commit_message_list) > Cardinality(HashSet)
    /\ ForeignHash \in FoundInPullRequests
    /\ linked_count[1] > ChunkSize

====
